---- MODULE Spec2Model ----
(***************************************************************************)
(* Model of src-tauri/src/main.rs: the four native commands of the         *)
(* desktop shell (get_file_metadata, copy_image_to_clipboard,              *)
(* move_to_trash, reveal_in_file_manager) over an abstract filesystem,     *)
(* clipboard and process table.                                            *)
(*                                                                         *)
(* Strings of the program (paths, extensions) are sequences of             *)
(* one-character strings, so that trimming, splitting and case mapping     *)
(* are computed character by character.  Labels and messages that the      *)
(* program builds with format! are TLA+ strings built with \o.             *)
(***************************************************************************)
EXTENDS Integers, Sequences, FiniteSets, TLC

(***************************************************************************)
(* Bounds of the model.                                                    *)
(***************************************************************************)
\* Longest run of whitespace put around a path given to a command.
MaxPad == 1
\* Longest byte buffer given to copy_image_to_clipboard.
MaxBytes == 2
\* Largest exit code a spawned file manager reports.
MaxExit == 1

(***************************************************************************)
(* Option values: None, Some(v).                                           *)
(***************************************************************************)
None == <<>>
Some(v) == <<v>>
unwrap_or(opt, default) == IF opt = None THEN default ELSE opt[1]

(***************************************************************************)
(* Characters and strings.                                                 *)
(***************************************************************************)
Lower == << "a", "b", "c", "d", "e", "f", "g", "h", "i", "j", "k", "l", "m",
            "n", "o", "p", "q", "r", "s", "t", "u", "v", "w", "x", "y", "z" >>
Upper == << "A", "B", "C", "D", "E", "F", "G", "H", "I", "J", "K", "L", "M",
            "N", "O", "P", "Q", "R", "S", "T", "U", "V", "W", "X", "Y", "Z" >>
\* Characters with the White_Space property that the model uses.
WhiteSpace == {" ", "\t"}

\* The program string a character sequence stands for.
RECURSIVE Cat(_)
Cat(s) == IF s = <<>> THEN "" ELSE s[1] \o Cat(Tail(s))

char_to_lowercase(c) ==
  IF \E i \in DOMAIN Upper : Upper[i] = c
  THEN Lower[CHOOSE i \in DOMAIN Upper : Upper[i] = c]
  ELSE c

char_to_uppercase(c) ==
  IF \E i \in DOMAIN Lower : Lower[i] = c
  THEN Upper[CHOOSE i \in DOMAIN Lower : Lower[i] = c]
  ELSE c

\* Variant: the extension keeps its letter case before the lookup.
keep_case(s) == s

\* str::to_lowercase, str::to_uppercase
to_lowercase(s) == [i \in 1..Len(s) |-> char_to_lowercase(s[i])]
to_uppercase(s) == [i \in 1..Len(s) |-> char_to_uppercase(s[i])]

\* Variant: the argument is used as given.
trim_nothing(s) == s

\* str::trim: the slice without leading and trailing whitespace.
trim(s) ==
  LET solid == {i \in 1..Len(s) : s[i] \notin WhiteSpace}
  IN  IF solid = {} THEN <<>>
      ELSE SubSeq(s, CHOOSE i \in solid : \A j \in solid : i <= j,
                     CHOOSE i \in solid : \A j \in solid : j <= i)

is_empty(s) == Len(s) = 0

(***************************************************************************)
(* std::path on Unix-style paths.  A component is a character sequence;    *)
(* the root component is <<"/">>, which no name can equal.                 *)
(***************************************************************************)
RootDir == <<"/">>
CurDir == <<".">>
ParentDir == <<".", ".">>

RECURSIVE Split(_)
Split(s) ==
  IF \A i \in 1..Len(s) : s[i] # "/" THEN <<s>>
  ELSE LET i == CHOOSE k \in 1..Len(s) : s[k] = "/" /\ \A j \in 1..(k - 1) : s[j] # "/"
       IN  <<SubSeq(s, 1, i - 1)>> \o Split(SubSeq(s, i + 1, Len(s)))

has_root(p) == Len(p) > 0 /\ p[1] = "/"

\* Path::components: repeated separators and non-leading "." are dropped.
components(p) ==
  LET parts == Split(p)
      names == SelectSeq(parts, LAMBDA x : x # <<>> /\ x # CurDir)
  IN  (IF has_root(p) THEN <<RootDir>>
       ELSE IF parts[1] = CurDir THEN <<CurDir>>
       ELSE <<>>) \o names

IsNormal(c) == c # RootDir /\ c # CurDir /\ c # ParentDir

RECURSIVE Join(_)
Join(names) ==
  IF names = <<>> THEN <<>>
  ELSE IF Len(names) = 1 THEN names[1]
  ELSE names[1] \o <<"/">> \o Join(Tail(names))

\* Components::as_path
as_path(comps) ==
  IF comps # <<>> /\ comps[1] = RootDir
  THEN RootDir \o Join(Tail(comps))
  ELSE Join(comps)

\* Path::file_name
file_name(p) ==
  LET comps == components(p)
  IN  IF comps # <<>> /\ IsNormal(comps[Len(comps)])
      THEN Some(comps[Len(comps)])
      ELSE None

\* Path::parent
parent(p) ==
  LET comps == components(p)
  IN  IF comps = <<>> \/ comps[Len(comps)] = RootDir
      THEN None
      ELSE Some(as_path(SubSeq(comps, 1, Len(comps) - 1)))

\* Path::extension: the part of file_name after its last dot, when
\* something stands before that dot.
extension(p) ==
  LET name == file_name(p)
  IN  IF name = None THEN None
      ELSE LET n == name[1]
               dots == {i \in 1..Len(n) : n[i] = "."}
           IN  IF dots = {} THEN None
               ELSE LET i == CHOOSE k \in dots : \A j \in dots : j <= k
                    IN  IF i = 1 THEN None
                        ELSE Some(SubSeq(n, i + 1, Len(n)))

(***************************************************************************)
(* describe_file_type: the label of a lowercased extension.                *)
(***************************************************************************)
describe_file_type(ext) ==
  LET e == Cat(ext)
  IN  CASE e = "png" -> "PNG Image"
        [] e \in {"jpg", "jpeg"} -> "JPEG Image"
        [] e = "gif" -> "GIF Image"
        [] e = "bmp" -> "Bitmap Image"
        [] e = "webp" -> "WebP Image"
        [] e \in {"tiff", "tif"} -> "TIFF Image"
        [] e = "plib" -> "Prompt Library File"
        [] e = "aoe" -> "Art Official Elements File"
        [] e = "" -> "File"
        [] OTHER -> Cat(to_uppercase(ext)) \o " File"

\* The extensions whose pixel dimensions get_file_metadata reads.
RasterExtensions == {"png", "jpg", "jpeg", "gif", "bmp", "webp", "tiff", "tif"}

(***************************************************************************)
(* The filesystem.  An entry is [key, kind, image, mtime]: key is the      *)
(* sequence of names from the root, kind is "file", "dir" or "absent" (a   *)
(* name the model knows that is not on disk), image is the pixel size its  *)
(* content decodes to (None when it is no image), mtime is None when the   *)
(* platform cannot report it, else Some(milliseconds since the epoch).     *)
(* The working directory of the process is the root.                       *)
(***************************************************************************)
RootKey == <<>>

RECURSIVE Resolve(_, _)
Resolve(comps, key) ==
  IF comps = <<>> THEN key
  ELSE LET c == comps[1]
       IN  Resolve(Tail(comps),
                   IF c = ParentDir
                   THEN (IF key = <<>> THEN key ELSE SubSeq(key, 1, Len(key) - 1))
                   ELSE IF IsNormal(c) THEN Append(key, c)
                   ELSE key)

KeyOf(p) == Resolve(components(p), RootKey)

IsPrefix(k, key) == Len(k) <= Len(key) /\ SubSeq(key, 1, Len(k)) = k

\* The path asks for a directory: it ends in a separator or in "/.".
WantsDir(p) ==
  \/ Len(p) > 1 /\ p[Len(p)] = "/"
  \/ Len(p) > 1 /\ p[Len(p)] = "." /\ p[Len(p) - 1] = "/"

\* The entry a path names, None when the lookup fails.
Lookup(disk, p) ==
  LET hits == {e \in disk : e.key = KeyOf(p) /\ e.kind # "absent"}
  IN  IF p = <<>> \/ hits = {} THEN None
      ELSE LET e == CHOOSE x \in hits : TRUE
           IN  IF e.kind = "file" /\ WantsDir(p) THEN None ELSE Some(e)

\* Path::exists, Path::is_dir
exists(disk, p) == Lookup(disk, p) # None
is_dir(disk, p) == Lookup(disk, p) # None /\ Lookup(disk, p)[1].kind = "dir"

\* The disk after the entry at key, and everything below it, is gone.
Without(disk, key) ==
  {IF IsPrefix(key, e.key)
   THEN [key |-> e.key, kind |-> "absent", image |-> None, mtime |-> None]
   ELSE e : e \in disk}

(***************************************************************************)
(* The names and paths the commands are tried on.                          *)
(***************************************************************************)
DirName == <<"d">>
Stem == <<"a">>

\* Extensions of the lookup table, in several letter cases, and others.
TableExts ==
  { <<"p","n","g">>, <<"P","N","G">>, <<"j","p","g">>, <<"J","p","G">>,
    <<"j","p","e","g">>, <<"g","i","f">>, <<"b","m","p">>,
    <<"w","e","b","p">>, <<"t","i","f","f">>, <<"T","i","f">>,
    <<"p","l","i","b">>, <<"P","L","I","B">>, <<"a","o","e">> }
OtherExts == { <<"x","y","z">>, <<"X","y","Z">>, <<"t","x","t">>, <<>> }

\* a.png, ..., a. (empty extension), a (no extension), .png (a hidden file).
FileNames ==
  {Stem \o <<".">> \o e : e \in TableExts \cup OtherExts}
    \cup {Stem, <<".", "p", "n", "g">>}

\* The names the specification of all four commands places on disk.
FewNames ==
  { Stem \o <<".", "P", "N", "G">>, Stem \o <<".", "t", "x", "t">>, Stem }

\* The spellings of a key: absolute, relative to the working directory,
\* and for a directory also with a trailing separator.
Spellings(key, kind) ==
  IF key = RootKey THEN {RootDir, CurDir}
  ELSE {RootDir \o Join(key), Join(key)}
         \cup (IF kind = "dir" THEN {RootDir \o Join(key) \o <<"/">>} ELSE {})

\* Runs of whitespace of length at most n.
RECURSIVE Blanks(_)
Blanks(n) ==
  IF n = 0 THEN {<<>>}
  ELSE Blanks(n - 1) \cup {Append(b, c) : b \in Blanks(n - 1), c \in WhiteSpace}

\* A path with at most MaxPad whitespace characters around it.
Padded(p) ==
  {x[1] \o p \o x[2] :
     x \in {y \in Blanks(MaxPad) \X Blanks(MaxPad) : Len(y[1]) + Len(y[2]) <= MaxPad}}

ImageStates == {None, Some(<<10, 20>>)}
MtimeStates == {None, Some(-1), Some(7)}

Absent(key) == [key |-> key, kind |-> "absent", image |-> None, mtime |-> None]

RootEntry == [key |-> RootKey, kind |-> "dir", image |-> None, mtime |-> Some(7)]
DirEntries ==
  {[key |-> <<DirName>>, kind |-> "dir", image |-> None, mtime |-> Some(7)], Absent(<<DirName>>)}

FileEntries(keys, images, mtimes) ==
  [key : keys, kind : {"file"}, image : images, mtime : mtimes]
    \cup {Absent(k) : k \in keys}

\* The disks a run starts from.  RootDisks: the root and one file in it,
\* of any content and modification time.
RootDisks(names) ==
  {{RootEntry, f} : f \in FileEntries({<<n>> : n \in names}, ImageStates, MtimeStates)}

\* TreeDisks: the root, the directory d or its absence, and one file, in
\* the root or in d.
TreeDisks(names) ==
  {{RootEntry, x[1], x[2]} :
     x \in {y \in DirEntries
                    \X FileEntries({<<n>> : n \in names} \cup {<<DirName, n>> : n \in names},
                                   {Some(<<10, 20>>)}, {Some(7)}) :
              Len(y[2].key) > 1 /\ y[1].kind = "absent" => y[2].kind = "absent"}}

\* Bytes are written as two hexadecimal digits.  20 and 09 are the space
\* and the tab; a buffer that begins with 89 and goes on is, in the
\* model, an encoded image one pixel high with one grey pixel per byte
\* that follows; no other buffer decodes.
Bytes == {"20", "09", "89", "00"}

RECURSIVE Buffers(_)
Buffers(n) ==
  IF n = 0 THEN {<<>>}
  ELSE Buffers(n - 1) \cup {Append(b, c) : b \in Buffers(n - 1), c \in Bytes}

Platforms == {"macos", "windows", "unix", "other"}

(***************************************************************************)
(* State.                                                                  *)
(***************************************************************************)
VARIABLES
  fs,         \* the disk
  clipboard,  \* what the system clipboard holds
  platform,   \* the target the program was compiled for
  request,    \* the argument the front end passes: [type, data]
  last,       \* the last call that returned, while the disk is as that call left it
  prev        \* the result of the call before it, when both are the same lookup

vars == <<fs, clipboard, platform, request, last, prev>>

\* The paths a command may be given on a disk: blank strings, and the
\* spellings of the entries with whitespace around them.
PathInputs(entries) ==
  Blanks(MaxPad + 1)
    \cup UNION {Padded(p) : p \in UNION {Spellings(e.key, e.kind) : e \in entries}}

\* A question or request to the operating system or a library.
Sys(op) == [op |-> op, program |-> "", args |-> <<>>]
\* Command::new(program).arg(..).status(): the spawn of a child process.
Spawn(program, args) == [op |-> "spawn", program |-> program, args |-> args]

\* A child process that was never started.
NoChild == [started |-> FALSE, success |-> FALSE, status |-> ""]

\* The record of a call: its command and argument, Ok(value) or
\* Err(msg), the class of the error-handling design that the Err belongs
\* to, the questions and requests it put to the operating system in
\* order, whether another process changed the disk while it ran, and
\* what became of the child process it spawned.
NoCall ==
  [cmd |-> "none", input |-> <<>>, ok |-> TRUE, kind |-> "", msg |-> "",
   value |-> None, effects |-> <<>>, raced |-> FALSE, child |-> NoChild]

Ok(cmd, input, value, effects) ==
  [cmd |-> cmd, input |-> input, ok |-> TRUE, kind |-> "", msg |-> "",
   value |-> value, effects |-> effects, raced |-> FALSE, child |-> NoChild]

Err(cmd, input, kind, msg, effects) ==
  [cmd |-> cmd, input |-> input, ok |-> FALSE, kind |-> kind, msg |-> msg,
   value |-> None, effects |-> effects, raced |-> FALSE, child |-> NoChild]

EmptyClipboard == [format |-> "empty"]
TextClipboard == [format |-> "text"]

\* The front end passes the same argument any number of times: a path on
\* a disk with a file in it, or a byte buffer.
Init ==
  /\ last = NoCall
  /\ prev = None
  /\ \/ /\ fs \in TreeDisks(FewNames)
        /\ platform \in Platforms
        /\ clipboard = TextClipboard
        /\ request \in [type : {"path"}, data : PathInputs(fs)]
     \/ /\ fs = {RootEntry}
        /\ platform \in Platforms
        /\ clipboard \in {TextClipboard, EmptyClipboard}
        /\ request \in [type : {"bytes"}, data : Buffers(MaxBytes)]

\* A call returns: last is its record, prev the result before it when that
\* was the same lookup on the same argument and no other process changed
\* the disk from the start of the one to the end of the other.
Return(r) ==
  /\ last' = r
  /\ prev' = IF /\ last.cmd = "get_file_metadata"
                /\ r.cmd = "get_file_metadata"
                /\ last.input = r.input
                /\ ~last.raced
                /\ ~r.raced
             THEN Some([ok |-> last.ok, msg |-> last.msg, value |-> last.value])
             ELSE None

(***************************************************************************)
(* get_file_metadata                                                       *)
(***************************************************************************)
\* Lines 62-73: the modification time in milliseconds since the epoch.
\* The times of the model are far below u64::MAX, where the clamp of
\* lines 68-72 is the identity.
modified_ms(entry) ==
  IF entry.mtime = None THEN None           \* metadata.modified() failed
  ELSE IF entry.mtime[1] < 0 THEN None      \* duration_since(UNIX_EPOCH) failed
  ELSE Some(entry.mtime[1])

\* image::image_dimensions
image_dimensions(entry) ==
  IF entry.kind = "file" THEN entry.image ELSE None

\* Variant: the dimensions are read whatever the extension.
FileMetadataResultAnyExtension(trimmed, entry) ==
  LET ext == to_lowercase(unwrap_or(extension(trimmed), <<>>))
      dims == image_dimensions(entry)
  IN  [file_name |-> Cat(unwrap_or(file_name(trimmed), trimmed)),
       file_type |-> describe_file_type(ext),
       width |-> IF dims = None THEN None ELSE Some(dims[1][1]),
       height |-> IF dims = None THEN None ELSE Some(dims[1][2]),
       modified_ms |-> modified_ms(entry)]

\* Lines 50-91: the result for an entry whose metadata was read.
FileMetadataResult(trimmed, entry) ==
  LET ext == to_lowercase(unwrap_or(extension(trimmed), <<>>))
      dims == IF Cat(ext) \in RasterExtensions THEN image_dimensions(entry) ELSE None
  IN  [file_name |-> Cat(unwrap_or(file_name(trimmed), trimmed)),
       file_type |-> describe_file_type(ext),
       width |-> IF dims = None THEN None ELSE Some(dims[1][1]),
       height |-> IF dims = None THEN None ELSE Some(dims[1][2]),
       modified_ms |-> modified_ms(entry)]

MetadataEffects(trimmed) ==
  LET ext == to_lowercase(unwrap_or(extension(trimmed), <<>>))
  IN  <<Sys("exists"), Sys("metadata")>>
        \o (IF Cat(ext) \in RasterExtensions THEN <<Sys("image_dimensions")>> ELSE <<>>)

\* Variant: dimensions that cannot be decoded fail the call.
get_file_metadata_strict(target_path, raced) ==
  LET trimmed == trim(target_path)
      cmd == "get_file_metadata"
      ext == to_lowercase(unwrap_or(extension(trimmed), <<>>))
  IN  IF is_empty(trimmed)
      THEN /\ ~raced
           /\ Return(Err(cmd, target_path, "InvalidInput", "Target path was empty.", <<>>))
           /\ UNCHANGED fs
      ELSE IF ~exists(fs, trimmed)
      THEN /\ ~raced
           /\ Return(Err(cmd, target_path, "NotFound",
                         "Path does not exist: " \o Cat(trimmed), <<Sys("exists")>>))
           /\ UNCHANGED fs
      ELSE IF raced
      THEN /\ KeyOf(trimmed) # RootKey
           /\ fs' = Without(fs, KeyOf(trimmed))
           /\ Return([Err(cmd, target_path, "IoError",
                          "No such file or directory (os error 2)",
                          <<Sys("exists"), Sys("metadata")>>) EXCEPT !.raced = TRUE])
      ELSE IF Cat(ext) \in RasterExtensions /\ image_dimensions(Lookup(fs, trimmed)[1]) = None
      THEN /\ Return(Err(cmd, target_path, "DecodeError",
                         "The image format could not be determined",
                         MetadataEffects(trimmed)))
           /\ UNCHANGED fs
      ELSE /\ Return(Ok(cmd, target_path,
                        Some(FileMetadataResult(trimmed, Lookup(fs, trimmed)[1])),
                        MetadataEffects(trimmed)))
           /\ UNCHANGED fs

\* Variant: the lookup leaves the file without a modification time.
get_file_metadata_touching(target_path, raced) ==
  LET trimmed == trim(target_path)
      cmd == "get_file_metadata"
  IN  IF is_empty(trimmed)
      THEN /\ ~raced
           /\ Return(Err(cmd, target_path, "InvalidInput", "Target path was empty.", <<>>))
           /\ UNCHANGED fs
      ELSE IF ~exists(fs, trimmed)
      THEN /\ ~raced
           /\ Return(Err(cmd, target_path, "NotFound",
                         "Path does not exist: " \o Cat(trimmed), <<Sys("exists")>>))
           /\ UNCHANGED fs
      ELSE IF raced
      THEN /\ KeyOf(trimmed) # RootKey
           /\ fs' = Without(fs, KeyOf(trimmed))
           /\ Return([Err(cmd, target_path, "IoError",
                          "No such file or directory (os error 2)",
                          <<Sys("exists"), Sys("metadata")>>) EXCEPT !.raced = TRUE])
      ELSE LET entry == Lookup(fs, trimmed)[1]
           IN  /\ Return(Ok(cmd, target_path, Some(FileMetadataResult(trimmed, entry)),
                            MetadataEffects(trimmed)))
               /\ fs' = (fs \ {entry}) \cup {[entry EXCEPT !.mtime = None]}

\* Lines 38-92.  Path::exists and fs::metadata are two questions to the
\* operating system; with raced, another process removes the entry
\* between them and the second one fails.
get_file_metadata(target_path, raced) ==
  LET trimmed == trim(target_path)
      cmd == "get_file_metadata"
  IN  IF is_empty(trimmed)
      THEN /\ ~raced
           /\ Return(Err(cmd, target_path, "InvalidInput", "Target path was empty.", <<>>))
           /\ UNCHANGED fs
      ELSE IF ~exists(fs, trimmed)
      THEN /\ ~raced
           /\ Return(Err(cmd, target_path, "NotFound",
                         "Path does not exist: " \o Cat(trimmed), <<Sys("exists")>>))
           /\ UNCHANGED fs
      ELSE IF raced
      THEN /\ KeyOf(trimmed) # RootKey
           /\ fs' = Without(fs, KeyOf(trimmed))
           /\ Return([Err(cmd, target_path, "IoError",
                          "No such file or directory (os error 2)",
                          <<Sys("exists"), Sys("metadata")>>) EXCEPT !.raced = TRUE])
      ELSE /\ Return(Ok(cmd, target_path,
                        Some(FileMetadataResult(trimmed, Lookup(fs, trimmed)[1])),
                        MetadataEffects(trimmed)))
           /\ UNCHANGED fs

GetFileMetadata ==
  /\ request.type = "path"
  /\ \E raced \in BOOLEAN : get_file_metadata(request.data, raced)
  /\ UNCHANGED <<clipboard, platform, request>>

(***************************************************************************)
(* Other processes: a file is rewritten, an entry is removed.  What the    *)
(* last call reported is then no longer about the disk as it is.           *)
(***************************************************************************)
EnvWrite ==
  \E e \in {x \in fs : x.kind = "file"}, img \in ImageStates, t \in MtimeStates :
    /\ <<img, t>> # <<e.image, e.mtime>>
    /\ fs' = (fs \ {e}) \cup {[e EXCEPT !.image = img, !.mtime = t]}
    /\ last' = NoCall
    /\ prev' = None
    /\ UNCHANGED <<clipboard, platform, request>>

EnvRemove ==
  \E e \in {x \in fs : x.kind # "absent" /\ x.key # RootKey} :
    /\ fs' = Without(fs, e.key)
    /\ last' = NoCall
    /\ prev' = None
    /\ UNCHANGED <<clipboard, platform, request>>

(***************************************************************************)
(* move_to_trash                                                           *)
(***************************************************************************)
\* Variant: the entry is handed to the trash without the existence check.
move_to_trash_unchecked(target_path, accepted) ==
  LET trimmed == trim(target_path)
      cmd == "move_to_trash"
  IN  IF is_empty(trimmed)
      THEN /\ accepted
           /\ Return(Err(cmd, target_path, "InvalidInput", "Target path was empty.", <<>>))
           /\ UNCHANGED fs
      ELSE IF accepted /\ KeyOf(trimmed) # RootKey /\ exists(fs, trimmed)
      THEN /\ fs' = Without(fs, KeyOf(trimmed))
           /\ Return(Ok(cmd, target_path, None, <<Sys("trash::delete")>>))
      ELSE /\ Return(Err(cmd, target_path, "IoError", "Operation not permitted (os error 1)",
                         <<Sys("trash::delete")>>))
           /\ UNCHANGED fs

\* Lines 115-127.  accepted: the trash facility of the OS takes the entry.
move_to_trash(target_path, accepted) ==
  LET trimmed == trim(target_path)
      cmd == "move_to_trash"
  IN  IF is_empty(trimmed)
      THEN /\ accepted
           /\ Return(Err(cmd, target_path, "InvalidInput", "Target path was empty.", <<>>))
           /\ UNCHANGED fs
      ELSE IF ~exists(fs, trimmed)
      THEN /\ accepted
           /\ Return(Err(cmd, target_path, "NotFound",
                         "Path does not exist: " \o Cat(trimmed), <<Sys("exists")>>))
           /\ UNCHANGED fs
      ELSE IF accepted /\ KeyOf(trimmed) # RootKey
      THEN /\ fs' = Without(fs, KeyOf(trimmed))
           /\ Return(Ok(cmd, target_path, None, <<Sys("exists"), Sys("trash::delete")>>))
      ELSE /\ Return(Err(cmd, target_path, "IoError", "Operation not permitted (os error 1)",
                         <<Sys("exists"), Sys("trash::delete")>>))
           /\ UNCHANGED fs

MoveToTrash ==
  /\ request.type = "path"
  /\ \E accepted \in BOOLEAN : move_to_trash(request.data, accepted)
  /\ UNCHANGED <<clipboard, platform, request>>

(***************************************************************************)
(* reveal_in_file_manager                                                  *)
(***************************************************************************)
\* What becomes of a child process: it could not be started, it exited
\* with a code, or a signal ended it.  status is Display of ExitStatus.
ChildOutcomes ==
  {NoChild, [started |-> TRUE, success |-> FALSE, status |-> "signal: 9 (SIGKILL)"]}
    \cup {[started |-> TRUE, success |-> (c = 0), status |-> "exit status: " \o ToString(c)] :
            c \in 0..MaxExit}

\* Variant: the exit status of the child is not looked at.
RunAndWaitAnyStatus(program, args, shown, child) ==
  IF ~child.started
  THEN [effects |-> <<Spawn(program, args)>>, ok |-> FALSE, kind |-> "IoError",
        msg |-> "No such file or directory (os error 2)"]
  ELSE [effects |-> <<Spawn(program, args), Sys("wait")>>, ok |-> TRUE, kind |-> "",
        msg |-> ""]

\* Command::new(program).arg(args).status() and the mapping of its result
\* (lines 162-173, 181-191, 197-207, 221-231): a record of the OS steps
\* and of Ok or Err(kind, msg).
RunAndWait(program, args, shown, child) ==
  IF ~child.started
  THEN [effects |-> <<Spawn(program, args)>>, ok |-> FALSE, kind |-> "IoError",
        msg |-> "No such file or directory (os error 2)"]
  ELSE IF child.success
  THEN [effects |-> <<Spawn(program, args), Sys("wait")>>, ok |-> TRUE, kind |-> "",
        msg |-> ""]
  ELSE [effects |-> <<Spawn(program, args), Sys("wait")>>, ok |-> FALSE,
        kind |-> "ExternalProcessError",
        msg |-> shown \o " exited with status: " \o child.status]

Before(effects, run) == [run EXCEPT !.effects = effects \o @]

\* Variant: the select flag and the path are two arguments.
reveal_on_windows_two_arguments(path, child) ==
  IF is_dir(fs, path)
  THEN Before(<<Sys("is_dir")>>, RunAndWait("explorer", <<Cat(path)>>, "explorer", child))
  ELSE Before(<<Sys("is_dir")>>,
              RunAndWait("explorer", <<"/select,", Cat(path)>>, "explorer", child))

\* Variant: the opener is given the path, file or not.
reveal_on_unix_path_itself(path, child) ==
  Before(<<Sys("is_dir")>>, RunAndWait("xdg-open", <<Cat(path)>>, "xdg-open", child))

\* Lines 161-174
reveal_on_macos(path, child) ==
  RunAndWait("open", <<"-R", Cat(path)>>, "open -R", child)

\* Lines 177-208
reveal_on_windows(path, child) ==
  IF is_dir(fs, path)
  THEN Before(<<Sys("is_dir")>>, RunAndWait("explorer", <<Cat(path)>>, "explorer", child))
  ELSE LET selector == <<"/", "s", "e", "l", "e", "c", "t", ",">> \o path
       IN  Before(<<Sys("is_dir")>>,
                  RunAndWait("explorer", <<Cat(selector)>>, "explorer", child))

\* Lines 211-232
reveal_on_unix(path, child) ==
  LET folder == IF is_dir(fs, path) THEN path
                ELSE unwrap_or(parent(path), <<"/">>)
  IN  Before(<<Sys("is_dir")>>, RunAndWait("xdg-open", <<Cat(folder)>>, "xdg-open", child))

\* Lines 141-157: the strategy compiled in for the target.
Dispatch(path, child) ==
  CASE platform = "macos" -> reveal_on_macos(path, child)
    [] platform = "windows" -> reveal_on_windows(path, child)
    [] platform = "unix" -> reveal_on_unix(path, child)
    [] OTHER -> [effects |-> <<>>, ok |-> FALSE, kind |-> "UnsupportedPlatform",
                 msg |-> "Reveal in file manager is not supported on this platform."]

\* Lines 130-158
reveal_in_file_manager(target_path, child) ==
  LET trimmed == trim(target_path)
      cmd == "reveal_in_file_manager"
  IN  IF is_empty(trimmed)
      THEN /\ child = NoChild
           /\ Return(Err(cmd, target_path, "InvalidInput", "Path was empty.", <<>>))
      ELSE IF ~exists(fs, trimmed)
      THEN /\ child = NoChild
           /\ Return(Err(cmd, target_path, "NotFound",
                         "Path does not exist: " \o Cat(trimmed), <<Sys("exists")>>))
      ELSE LET run == Dispatch(trimmed, child)
           IN  /\ platform \notin {"macos", "windows", "unix"} => child = NoChild
               /\ Return([cmd |-> cmd, input |-> target_path, ok |-> run.ok,
                          kind |-> run.kind, msg |-> run.msg, value |-> None,
                          effects |-> <<Sys("exists")>> \o run.effects, raced |-> FALSE,
                          child |-> child])

RevealInFileManager ==
  /\ request.type = "path"
  /\ \E child \in ChildOutcomes : reveal_in_file_manager(request.data, child)
  /\ UNCHANGED <<fs, clipboard, platform, request>>

(***************************************************************************)
(* copy_image_to_clipboard                                                 *)
(***************************************************************************)
RECURSIVE to_rgba8(_)
to_rgba8(pixels) ==
  IF pixels = <<>> THEN <<>>
  ELSE <<pixels[1], pixels[1], pixels[1], "ff">> \o to_rgba8(Tail(pixels))

\* image::load_from_memory
load_from_memory(data) ==
  IF Len(data) >= 2 /\ data[1] = "89"
  THEN Some([width |-> Len(data) - 1, height |-> 1, pixels |-> Tail(data)])
  ELSE None

\* Variant: the clipboard is opened and emptied before the buffer is decoded.
copy_image_to_clipboard_open_first(image_data, opened, written, cleared) ==
  LET cmd == "copy_image_to_clipboard"
      decoded == load_from_memory(image_data)
  IN  IF is_empty(image_data)
      THEN /\ opened /\ written /\ ~cleared
           /\ Return(Err(cmd, image_data, "InvalidInput", "Image data was empty.", <<>>))
           /\ UNCHANGED clipboard
      ELSE IF ~opened
      THEN /\ written /\ ~cleared
           /\ Return(Err(cmd, image_data, "ClipboardUnavailable",
                         "The clipboard contents were not available",
                         <<Sys("Clipboard::new")>>))
           /\ UNCHANGED clipboard
      ELSE IF decoded = None
      THEN /\ written /\ ~cleared
           /\ Return(Err(cmd, image_data, "DecodeError",
                         "The image format could not be determined",
                         <<Sys("Clipboard::new"), Sys("load_from_memory")>>))
           /\ clipboard' = EmptyClipboard
      ELSE IF ~written
      THEN /\ Return(Err(cmd, image_data, "ClipboardWriteError",
                         "Unknown error while interacting with the clipboard",
                         <<Sys("Clipboard::new"), Sys("load_from_memory"), Sys("set_image")>>))
           /\ clipboard' = IF cleared THEN EmptyClipboard ELSE clipboard
      ELSE /\ ~cleared
           /\ Return(Ok(cmd, image_data, None,
                        <<Sys("Clipboard::new"), Sys("load_from_memory"), Sys("set_image")>>))
           /\ clipboard' = [format |-> "image", width |-> decoded[1].width,
                            height |-> decoded[1].height,
                            bytes |-> to_rgba8(decoded[1].pixels)]

\* Lines 95-112.  opened: Clipboard::new succeeds; written: set_image
\* succeeds; cleared: a failed set_image had already emptied the clipboard.
copy_image_to_clipboard(image_data, opened, written, cleared) ==
  LET cmd == "copy_image_to_clipboard"
      decoded == load_from_memory(image_data)
      early == opened /\ written /\ ~cleared
  IN  IF is_empty(image_data)
      THEN /\ early
           /\ Return(Err(cmd, image_data, "InvalidInput", "Image data was empty.", <<>>))
           /\ UNCHANGED clipboard
      ELSE IF decoded = None
      THEN /\ early
           /\ Return(Err(cmd, image_data, "DecodeError",
                         "The image format could not be determined",
                         <<Sys("load_from_memory")>>))
           /\ UNCHANGED clipboard
      ELSE IF ~opened
      THEN /\ written /\ ~cleared
           /\ Return(Err(cmd, image_data, "ClipboardUnavailable",
                         "The clipboard contents were not available",
                         <<Sys("load_from_memory"), Sys("Clipboard::new")>>))
           /\ UNCHANGED clipboard
      ELSE IF ~written
      THEN /\ Return(Err(cmd, image_data, "ClipboardWriteError",
                         "Unknown error while interacting with the clipboard",
                         <<Sys("load_from_memory"), Sys("Clipboard::new"), Sys("set_image")>>))
           /\ clipboard' = IF cleared THEN EmptyClipboard ELSE clipboard
      ELSE /\ ~cleared
           /\ Return(Ok(cmd, image_data, None,
                        <<Sys("load_from_memory"), Sys("Clipboard::new"), Sys("set_image")>>))
           /\ clipboard' = [format |-> "image", width |-> decoded[1].width,
                            height |-> decoded[1].height,
                            bytes |-> to_rgba8(decoded[1].pixels)]

CopyImageToClipboard ==
  /\ request.type = "bytes"
  /\ \E opened, written, cleared \in BOOLEAN :
       copy_image_to_clipboard(request.data, opened, written, cleared)
  /\ UNCHANGED <<fs, platform, request>>

(***************************************************************************)
(* Specifications.                                                         *)
(***************************************************************************)
\* All four commands, on a small tree.
Next ==
  \/ GetFileMetadata
  \/ MoveToTrash
  \/ RevealInFileManager
  \/ CopyImageToClipboard
  \/ EnvRemove

Spec == Init /\ [][Next]_vars

\* The metadata lookup alone, on a file of every name of FileNames.
InitMeta ==
  /\ fs \in RootDisks(FileNames)
  /\ clipboard = TextClipboard
  /\ platform = "unix"
  /\ request \in [type : {"path"}, data : PathInputs(fs)]
  /\ last = NoCall
  /\ prev = None

NextMeta ==
  \/ GetFileMetadata
  \/ EnvWrite
  \/ EnvRemove

SpecMeta == InitMeta /\ [][NextMeta]_vars

(***************************************************************************)
(* What the properties speak of.                                           *)
(***************************************************************************)
PathCommands == {"get_file_metadata", "move_to_trash", "reveal_in_file_manager"}

\* The steps of the commands.
MetadataStep(raced) ==
  /\ request.type = "path"
  /\ get_file_metadata(request.data, raced)
  /\ UNCHANGED <<clipboard, platform, request>>

TrashStep(accepted) ==
  /\ request.type = "path"
  /\ move_to_trash(request.data, accepted)
  /\ UNCHANGED <<clipboard, platform, request>>

RevealStep(child) ==
  /\ request.type = "path"
  /\ reveal_in_file_manager(request.data, child)
  /\ UNCHANGED <<fs, clipboard, platform, request>>

CopyStep ==
  /\ request.type = "bytes"
  /\ \E opened, written, cleared \in BOOLEAN :
       copy_image_to_clipboard(request.data, opened, written, cleared)
  /\ UNCHANGED <<fs, platform, request>>

Ops(call) == {call.effects[i].op : i \in DOMAIN call.effects}
Spawns(call) == {i \in DOMAIN call.effects : call.effects[i].op = "spawn"}
TheSpawn(call) == call.effects[CHOOSE i \in Spawns(call) : TRUE]

\* The trimmed path of the last call, and its extension as written.
LastPath == trim(last.input)
LastExt == Cat(unwrap_or(extension(LastPath), <<>>))

\* A path of whitespace only; a buffer of whitespace bytes only.
BlankPath(p) == \A i \in DOMAIN p : p[i] \in {" ", "\t"}
BlankBuffer(b) == \A i \in DOMAIN b : b[i] \in {"20", "09"}

RejectedUntouched == ~last.ok /\ last.kind = "InvalidInput" /\ last.effects = <<>>

(***************************************************************************)
(* C1 as stated: every command, given a path or a byte buffer that is      *)
(* empty or holds whitespace only, returns InvalidInput and has put no     *)
(* question or request to the filesystem, the decoder, the clipboard, the  *)
(* trash or the process table.                                             *)
(***************************************************************************)
C1_AsStated ==
  /\ last.cmd \in PathCommands /\ BlankPath(last.input) => RejectedUntouched
  /\ last.cmd = "copy_image_to_clipboard" /\ BlankBuffer(last.input) => RejectedUntouched

(***************************************************************************)
(* C1 as amended: the three path commands, given a path that is empty or   *)
(* holds whitespace only, and copy_image_to_clipboard, given a buffer of   *)
(* length zero, return InvalidInput without any step at the operating      *)
(* system; a non-empty buffer of whitespace bytes is handed to the         *)
(* decoder.                                                                *)
(***************************************************************************)
C1_BlankInputRejected ==
  /\ last.cmd \in PathCommands /\ BlankPath(last.input) => RejectedUntouched
  /\ last.cmd = "copy_image_to_clipboard" /\ last.input = <<>> => RejectedUntouched
  /\ last.cmd = "copy_image_to_clipboard" /\ last.input # <<>>
       => last.effects # <<>> /\ last.effects[1].op = "load_from_memory"

C1_Witness ==
  /\ last.cmd = "reveal_in_file_manager"
  /\ last.input # <<>>
  /\ BlankPath(last.input)
  /\ last.kind = "InvalidInput"

(***************************************************************************)
(* C2: a call of get_file_metadata, move_to_trash or                       *)
(* reveal_in_file_manager on a path whose trimmed form is non-empty and    *)
(* names nothing on disk returns NotFound, having asked only whether the   *)
(* path exists: the trash is not called and no process is spawned.         *)
(***************************************************************************)
MissingPath ==
  /\ request.type = "path"
  /\ ~is_empty(trim(request.data))
  /\ Lookup(fs, trim(request.data)) = None

C2_MissingPathNotFound ==
  [][ (MissingPath /\ (\/ \E raced \in BOOLEAN : MetadataStep(raced)
                        \/ \E accepted \in BOOLEAN : TrashStep(accepted)
                        \/ \E child \in ChildOutcomes : RevealStep(child)))
        => /\ ~last'.ok
           /\ last'.kind = "NotFound"
           /\ Ops(last') = {"exists"}
           /\ fs' = fs ]_vars

C2_Witness ==
  /\ last.cmd = "move_to_trash"
  /\ last.kind = "NotFound"
  /\ Lookup(fs, LastPath) = None
  /\ \E e \in fs : e.kind = "dir" /\ e.key # RootKey

(***************************************************************************)
(* C3: on the generic-opener strategy the one argument of the opener is    *)
(* the path itself when the path is a directory, else the parent of the    *)
(* path, else (no parent) the root; it is the root only when the path has  *)
(* no parent or the root is the path's parent, and it is never the path    *)
(* of a file that is not a directory.                                      *)
(***************************************************************************)
C3_UnixOpensContainingFolder ==
  (platform = "unix" /\ last.cmd = "reveal_in_file_manager" /\ Spawns(last) # {})
    => LET spawn == TheSpawn(last)
           dir == Lookup(fs, LastPath)[1].kind = "dir"
       IN  /\ spawn.program = "xdg-open"
           /\ Len(spawn.args) = 1
           /\ dir => spawn.args[1] = Cat(LastPath)
           /\ ~dir /\ parent(LastPath) # None => spawn.args[1] = Cat(parent(LastPath)[1])
           /\ ~dir /\ parent(LastPath) = None => spawn.args[1] = "/"
           /\ ~dir => spawn.args[1] # Cat(LastPath)
           /\ spawn.args[1] = "/" => parent(LastPath) \in {None, Some(<<"/">>)}

C3_Witness ==
  /\ platform = "unix"
  /\ last.cmd = "reveal_in_file_manager"
  /\ Spawns(last) # {}
  /\ Lookup(fs, LastPath)[1].kind = "file"
  /\ TheSpawn(last).args = <<"/d">>

(***************************************************************************)
(* C4 as stated: every call of reveal_in_file_manager that passes the      *)
(* empty check and the existence check spawns exactly one child process,   *)
(* returns after the child has exited, returns Ok exactly when the child   *)
(* exits with success, ExternalProcessError with the reported status when  *)
(* it exits otherwise, and IoError when the child could not be started.    *)
(***************************************************************************)
Validated ==
  /\ last.cmd = "reveal_in_file_manager"
  /\ last.kind \notin {"InvalidInput", "NotFound"}

ShownProgram ==
  CASE platform = "macos" -> "open -R"
    [] platform = "windows" -> "explorer"
    [] platform = "unix" -> "xdg-open"
    [] OTHER -> ""

\* last.child is what became of the child of the last call.
OneChildAwaited ==
  /\ Cardinality(Spawns(last)) = 1
  /\ last.ok <=> (last.child.started /\ last.child.success)
  /\ last.child.started => last.effects[Len(last.effects)].op = "wait"
  /\ last.child.started /\ ~last.child.success
       => /\ last.kind = "ExternalProcessError"
          /\ last.msg = ShownProgram \o " exited with status: " \o last.child.status
  /\ ~last.child.started => last.kind = "IoError" /\ "wait" \notin Ops(last)

C4_AsStated == Validated => OneChildAwaited

(***************************************************************************)
(* C4 as amended: on a build for one of the three targets with a strategy  *)
(* (macos, windows, other unix) a validated call spawns exactly one child, *)
(* waits for it, and returns Ok exactly on a success status,               *)
(* ExternalProcessError with the status on any other exit, IoError when    *)
(* the spawn fails; on a build for any other target a validated call       *)
(* spawns nothing and returns UnsupportedPlatform.                         *)
(***************************************************************************)
C4_OneChildPerReveal ==
  Validated
    => IF platform \in {"macos", "windows", "unix"}
       THEN OneChildAwaited
       ELSE /\ Spawns(last) = {}
            /\ ~last.ok
            /\ last.kind = "UnsupportedPlatform"

C4_Witness ==
  /\ Validated
  /\ platform = "macos"
  /\ last.child.started
  /\ last.kind = "ExternalProcessError"
  /\ last.msg = "open -R exited with status: exit status: 1"
  /\ Cardinality(Spawns(last)) = 1

(***************************************************************************)
(* C5: copy_image_to_clipboard on a non-empty buffer that does not decode  *)
(* returns DecodeError; a call that returns InvalidInput or DecodeError    *)
(* leaves the clipboard as it was and has neither opened nor written it;   *)
(* the clipboard is opened only after a decode that succeeded.             *)
(***************************************************************************)
ClipboardOps == {"Clipboard::new", "set_image"}

C5_DecodeBeforeClipboard ==
  [][ CopyStep
        => /\ (request.data # <<>> /\ load_from_memory(request.data) = None)
                => ~last'.ok /\ last'.kind = "DecodeError"
           /\ last'.kind \in {"InvalidInput", "DecodeError"}
                => clipboard' = clipboard /\ Ops(last') \cap ClipboardOps = {}
           /\ \A i \in DOMAIN last'.effects :
                last'.effects[i].op \in ClipboardOps
                  => /\ i > 1
                     /\ last'.effects[1].op = "load_from_memory"
                     /\ load_from_memory(request.data) # None ]_vars

C5_Witness ==
  /\ last.cmd = "copy_image_to_clipboard"
  /\ last.input = <<"00", "89">>
  /\ last.kind = "DecodeError"
  /\ clipboard = TextClipboard

(***************************************************************************)
(* C10: on the explorer-style strategy the file browser gets exactly one   *)
(* argument: the path itself when the path is a directory, and the text    *)
(* /select, followed at once by the path when it is a file.                *)
(***************************************************************************)
C10_ExplorerSingleArgument ==
  (platform = "windows" /\ last.cmd = "reveal_in_file_manager" /\ Spawns(last) # {})
    => LET spawn == TheSpawn(last)
       IN  /\ spawn.program = "explorer"
           /\ Len(spawn.args) = 1
           /\ spawn.args[1] = IF Lookup(fs, LastPath)[1].kind = "dir"
                              THEN Cat(LastPath)
                              ELSE "/select," \o Cat(LastPath)

C10_Witness ==
  /\ platform = "windows"
  /\ last.cmd = "reveal_in_file_manager"
  /\ Spawns(last) # {}
  /\ TheSpawn(last).args = <<"/select,/d/a.PNG">>

(***************************************************************************)
(* C6: a call of get_file_metadata that is past the existence check fails  *)
(* only when the metadata read fails, with IoError.  When the entry is     *)
(* there to be read the call returns Ok with the file name and the type    *)
(* label; content that does not decode gives absent width and height, a    *)
(* modification time that cannot be read or lies before the epoch gives    *)
(* an absent modified_ms.                                                  *)
(***************************************************************************)
LastEntry == Lookup(fs, LastPath)

C6_OnlyMetadataReadFails ==
  last.cmd = "get_file_metadata"
    => /\ (~last.ok /\ last.kind \notin {"InvalidInput", "NotFound"})
            => /\ last.kind = "IoError"
               /\ last.effects = <<Sys("exists"), Sys("metadata")>>
       /\ (~is_empty(LastPath) /\ LastEntry # None)
            => /\ last.ok
               /\ last.value[1].file_name # ""
               /\ last.value[1].file_type # ""
               /\ LastEntry[1].image = None
                    => last.value[1].width = None /\ last.value[1].height = None
               /\ (LastEntry[1].mtime = None \/ LastEntry[1].mtime \in {Some(-1)})
                    => last.value[1].modified_ms = None
               /\ LastEntry[1].mtime = Some(7) => last.value[1].modified_ms = Some(7)

C6_Witness ==
  /\ last.cmd = "get_file_metadata"
  /\ last.ok
  /\ LastExt = "png"
  /\ LastEntry[1].image = None
  /\ LastEntry[1].mtime = Some(-1)
  /\ last.value[1] = [file_name |-> "a.png", file_type |-> "PNG Image", width |-> None,
                      height |-> None, modified_ms |-> None]

(***************************************************************************)
(* C7: the type label of a result is fixed by the extension of the path    *)
(* whatever its letter case: png gives PNG Image, jpg and jpeg give JPEG   *)
(* Image, plib gives Prompt Library File, aoe gives Art Official Elements  *)
(* File, the empty or missing extension gives File, and an extension       *)
(* outside the table gives its uppercase form followed by " File".         *)
(***************************************************************************)
C7_LabelOfExtension ==
  (last.cmd = "get_file_metadata" /\ last.ok)
    => LET label == last.value[1].file_type
       IN  /\ LastExt \in {"png", "PNG"} => label = "PNG Image"
           /\ LastExt \in {"jpg", "JpG", "jpeg"} => label = "JPEG Image"
           /\ LastExt \in {"plib", "PLIB"} => label = "Prompt Library File"
           /\ LastExt = "aoe" => label = "Art Official Elements File"
           /\ LastExt = "" => label = "File"
           /\ LastExt \in {"xyz", "XyZ"} => label = "XYZ File"
           /\ LastExt = "txt" => label = "TXT File"
           /\ LastExt = "gif" => label = "GIF Image"
           /\ LastExt = "bmp" => label = "Bitmap Image"
           /\ LastExt = "webp" => label = "WebP Image"
           /\ LastExt \in {"tiff", "Tif"} => label = "TIFF Image"
           /\ LastExt \in {"png", "PNG", "jpg", "JpG", "jpeg", "plib", "PLIB", "aoe", "",
                           "xyz", "XyZ", "txt", "gif", "bmp", "webp", "tiff", "Tif"}

C7_Witness ==
  /\ last.cmd = "get_file_metadata"
  /\ last.ok
  /\ LastExt = "XyZ"
  /\ last.value[1].file_type = "XYZ File"

(***************************************************************************)
(* C8 as stated: in every result width and height are both present or      *)
(* both absent; they are present only when the lowercased extension is a   *)
(* recognized raster type and the content decodes; with any other          *)
(* extension both are absent and the label is the uppercase extension      *)
(* followed by " File" (read here of paths that have an extension).        *)
(***************************************************************************)
LowerExt == Cat(to_lowercase(unwrap_or(extension(LastPath), <<>>)))
UpperExt == Cat(to_uppercase(unwrap_or(extension(LastPath), <<>>)))
RasterTypes == {"png", "jpg", "jpeg", "gif", "bmp", "webp", "tiff", "tif"}

DimensionsPaired ==
  /\ last.value[1].width = None <=> last.value[1].height = None
  /\ last.value[1].width # None
       => /\ LowerExt \in RasterTypes
          /\ LastEntry[1].image = Some(<<last.value[1].width[1], last.value[1].height[1]>>)
  /\ LowerExt \notin RasterTypes
       => last.value[1].width = None /\ last.value[1].height = None

C8_AsStated ==
  (last.cmd = "get_file_metadata" /\ last.ok)
    => /\ DimensionsPaired
       /\ (LowerExt \notin RasterTypes /\ LowerExt # "")
            => last.value[1].file_type = UpperExt \o " File"

(***************************************************************************)
(* C8 as amended: in every result width and height are both present or     *)
(* both absent; they are present only when the lowercased extension is a   *)
(* recognized raster type and the content decodes; with any other          *)
(* extension both are absent, and the label is the uppercase extension     *)
(* followed by " File" unless the extension is plib or aoe, which have     *)
(* labels of their own, or is empty or missing, where the label is "File". *)
(***************************************************************************)
C8_DimensionsOnlyForRaster ==
  (last.cmd = "get_file_metadata" /\ last.ok)
    => /\ DimensionsPaired
       /\ (LowerExt \notin RasterTypes /\ LowerExt \notin {"plib", "aoe", ""})
            => last.value[1].file_type = UpperExt \o " File"
       /\ LowerExt = "plib" => last.value[1].file_type = "Prompt Library File"
       /\ LowerExt = "aoe" => last.value[1].file_type = "Art Official Elements File"
       /\ LowerExt = "" => last.value[1].file_type = "File"

C8_Witness ==
  /\ last.cmd = "get_file_metadata"
  /\ last.ok
  /\ LastExt = "txt"
  /\ LastEntry[1].image # None
  /\ last.value[1].width = None
  /\ last.value[1].height = None
  /\ last.value[1].file_type = "TXT File"

(***************************************************************************)
(* C9: two calls of get_file_metadata on the same path, with no change of  *)
(* the disk by another process from the start of the first to the end of   *)
(* the second and no other call between them, return the same result.      *)
(***************************************************************************)
C9_RepeatedLookupAgrees ==
  prev # None
    => /\ last.cmd = "get_file_metadata"
       /\ prev[1] = [ok |-> last.ok, msg |-> last.msg, value |-> last.value]

C9_Witness ==
  /\ prev # None
  /\ last.ok
  /\ last.value[1].width = Some(10)
  /\ last.value[1].modified_ms = Some(7)

====
